---- MODULE Spec2Model ----
(***************************************************************************)
(* keepcurrent: a Runner polls a Source and, when the Source yields a      *)
(* stream, replays it to the configured Sinks (keepcurrent.go).  The sinks *)
(* are the byte-channel sink and the file sink; the sources are the test   *)
(* double byteSource and the file source.                                  *)
(***************************************************************************)
EXTENDS Integers, Sequences, FiniteSets, TLC

\* ---------------------------------------------------------------- bounds
MaxLen == 2        \* longest payload / file content, in bytes
MaxChunk == 2      \* most bytes one Read call returns
MaxSinks == 2      \* most sinks a runner is constructed with
MaxTime == 2       \* last reading of the clock
MaxInit == 1       \* most InitFrom calls of the client

\* ------------------------------------------------------------- constants
ZeroTime == 0      \* time.Time{}: the watermark of a new Runner
MaxAttempts == 3   \* ExpBackoffThenFail(time.Millisecond, 3, ...)
BaseDelay == 1     \* time.Millisecond, in clock units

Bytes == {1, 2}
Tasks == {"caller", "loop"}
Paths == {"f", "g"}

RECURSIVE SeqsUpTo(_)
SeqsUpTo(n) ==
    IF n = 0 THEN {<<>>}
    ELSE LET S == SeqsUpTo(n - 1)
         IN  S \cup {Append(s, b) : s \in {x \in S : Len(x) = n - 1}, b \in Bytes}

Contents == SeqsUpTo(MaxLen)

Min(a, b) == IF a < b THEN a ELSE b

IsPrefix(s, t) == Len(s) <= Len(t) /\ SubSeq(t, 1, Len(s)) = s

\* ----------------------------------------------------------------- sinks
ChanSink == [kind |-> "chan", path |-> "-"]
FileSink(p) == [kind |-> "file", path |-> p]

RECURSIVE SinkLists(_)
SinkLists(n) ==
    IF n = 0 THEN {<<>>}
    ELSE LET S == SinkLists(n - 1)
         IN  S \cup {Append(s, k) : s \in {x \in S : Len(x) = n - 1},
                                    k \in {ChanSink, FileSink("g")}}

\* ----------------------------------------------------------------- files
NoFile == [exists |-> FALSE, data |-> <<>>]
File(d) == [exists |-> TRUE, data |-> d]

\* os.OpenFile(path, O_WRONLY|O_CREATE, 0666): creates a missing file and
\* leaves the content of an existing one in place (no O_TRUNC).
OpenFileTrunc(f) == File(<<>>)
OpenFile(f) == IF f.exists THEN f ELSE File(<<>>)

\* One Write of chunk c at offset off of an open file: the bytes replace what
\* was there and the file grows when they run past its end.
WriteAt(d, off, c) ==
    SubSeq(d, 1, Min(off, Len(d))) \o c \o
    (IF Len(d) > off + Len(c) THEN SubSeq(d, off + Len(c) + 1, Len(d)) ELSE <<>>)

VARIABLES
    now,          \* the clock time.Now() reads
    lastUpdated,  \* Runner.lastUpdated, the watermark
    sinks,        \* Runner.sinks
    policy,       \* Runner.OnSourceError: "zero" or "exp"
    srcKind,      \* Runner.source: "byte" (byteSource) or "file" (FromFile)
    src,          \* byteSource: lastModified, calls, remainingFailures, content
    fs,           \* the file system: path -> file
    cyc,          \* per task: the activation of syncOnce
    callerPc,     \* the client goroutine: "idle" or "insync" (in InitFrom)
    inits,        \* InitFrom calls made
    loopPc,       \* the goroutine of Start: "none", "top", "insync", "select", "exited"
    stopCh,       \* the channel ch of Start: "none", "open", "closed"; without
                  \* sinks the returned func() {}: "noop", "noop-called"
    tick,         \* a tick waits in tk.C
    finalFailures,\* calls of the terminal-failure callback
    lastStreamStart, \* when the last cycle whose Fetch gave a stream started
    content,      \* what writeTempFile wrote into the source's file
    rt            \* a client that writes through a file sink and reads back

vars == <<now, lastUpdated, sinks, policy, srcKind, src, fs, cyc, callerPc,
          inits, loopPc, stopCh, tick, finalFailures, lastStreamStart, content, rt>>

N == Len(sinks)
SinkIdx == 1..MaxSinks

NoStream == [kind |-> "none", data |-> <<>>, pos |-> 0, open |-> FALSE]

\* The locals of one activation of syncOnce, and what it has done so far:
\* i is the sink the loop is at; got, eof and res are what the sink called
\* last (ret) has read and returned.
IdleCycle ==
    [pc |-> "idle", start |-> 0, arg |-> 0, outcome |-> "none", err |-> "nil",
     rc |-> NoStream, i |-> 0, rkind |-> "none", rpos |-> 0,
     w |-> <<>>, acc |-> <<>>, woff |-> 0,
     fetches |-> 0, srcErrs |-> <<>>, delay |-> 0, closes |-> 0,
     produced |-> <<>>,
     ret |-> 0, got |-> <<>>, eof |-> FALSE, res |-> "none", sent |-> <<>>,
     allEof |-> TRUE, nCalls |-> 0, nFailed |-> 0, reports |-> <<>>]

\* ------------------------------------------------------- backoff policy
RECURSIVE Pow2(_)
Pow2(n) == IF n = 0 THEN 1 ELSE 2 * Pow2(n - 1)

\* ExpBackoffThenFail(base, max, fail): the delay doubles per attempt; at the
\* attempt ceiling the terminal-failure callback fires and the delay is zero.
ExpBackoffGivesUp(tries) == tries >= MaxAttempts
ExpBackoffThenFail(tries) ==
    IF ExpBackoffGivesUp(tries) THEN 0 ELSE BaseDelay * Pow2(tries - 1)

\* What the installed source-error callback answers for its tries-th call:
\* the default of New and the test callbacks that "return 0" stop at once.
CallbackDelay(tries) == IF policy = "exp" THEN ExpBackoffThenFail(tries) ELSE 0
CallbackFinal(tries) == IF policy = "exp" /\ ExpBackoffGivesUp(tries) THEN 1 ELSE 0

\* ------------------------------------------------------------- syncOnce
\* start := time.Now(); from.Fetch(runner.lastUpdated) is called.
BeginCycle(t) ==
    [cyc EXCEPT ![t] = [IdleCycle EXCEPT !.pc = "fetching", !.start = now,
                                         !.arg = lastUpdated, !.fetches = 1]]

NoCycle(t) == cyc[t].pc \in {"idle", "returned"}

\* runner.lastUpdated = start
NewWatermarkNow(c) == now
NewWatermarkZero(c) == ZeroTime
NewWatermark(c) == c.start

\* The reader the first sink is given: rc itself for a single sink, else
\* io.TeeReader(rc, &w).
FirstReader == IF N = 1 THEN "live" ELSE "tee"

\* The cycle once Fetch has returned the stream rc.
Distribute(c, rc) ==
    [c EXCEPT !.outcome = "stream", !.rc = rc, !.i = 1, !.rkind = FirstReader,
              !.pc = "sink"]

\* byteSource.Fetch: ErrUnmodified when ifNewerThan.After(lastModified).
ByteUnmodified(arg) == arg > src.lastModified

FetchUnmodifiedReported(t) ==
    /\ cyc[t].pc = "fetching"
    /\ srcKind = "byte"
    /\ ByteUnmodified(cyc[t].arg)
    /\ cyc' = [cyc EXCEPT ![t] = [@ EXCEPT !.outcome = "error",
                                           !.err = "ErrUnmodified",
                                           !.srcErrs = Append(@, "ErrUnmodified"),
                                           !.pc = "done"]]
    /\ UNCHANGED <<now, lastUpdated, sinks, policy, srcKind, src, fs, callerPc,
                   inits, loopPc, stopCh, tick, finalFailures, rt, lastStreamStart, content>>

FetchUnmodifiedStamps(t) ==
    /\ cyc[t].pc = "fetching"
    /\ srcKind = "byte"
    /\ ByteUnmodified(cyc[t].arg)
    /\ cyc' = [cyc EXCEPT ![t] = [@ EXCEPT !.outcome = "unmodified", !.pc = "done"]]
    /\ lastUpdated' = cyc[t].start
    /\ UNCHANGED <<now, sinks, policy, srcKind, src, fs, callerPc, inits, loopPc,
                   stopCh, tick, finalFailures, rt, lastStreamStart, content>>

FetchUnmodified(t) ==
    /\ cyc[t].pc = "fetching"
    /\ srcKind = "byte"
    /\ ByteUnmodified(cyc[t].arg)
    /\ cyc' = [cyc EXCEPT ![t] = [@ EXCEPT !.outcome = "unmodified", !.pc = "done"]]
    /\ UNCHANGED <<now, lastUpdated, sinks, policy, srcKind, src, fs, callerPc,
                   inits, loopPc, stopCh, tick, finalFailures, rt, lastStreamStart, content>>

\* byteSource.Fetch counts the call and returns its content, or (while
\* failures remain) a reader whose Read fails with io.ErrUnexpectedEOF.
ByteStream ==
    IF src.remainingFailures - 1 > 0
    THEN [kind |-> "failing", data |-> <<>>, pos |-> 0, open |-> TRUE]
    ELSE [kind |-> "bytes", data |-> src.content, pos |-> 0, open |-> TRUE]

FetchBytes(t) ==
    /\ cyc[t].pc = "fetching"
    /\ srcKind = "byte"
    /\ ~ByteUnmodified(cyc[t].arg)
    /\ cyc' = [cyc EXCEPT ![t] = Distribute(@, ByteStream)]
    /\ lastUpdated' = NewWatermark(cyc[t])
    /\ lastStreamStart' = cyc[t].start
    /\ src' = [src EXCEPT !.calls = @ + 1, !.remainingFailures = @ - 1]
    /\ UNCHANGED <<now, sinks, policy, srcKind, fs, callerPc, inits, loopPc,
                   stopCh, tick, finalFailures, rt, content>>

\* fileSource.Fetch: os.Open(path) gives the file or the error of Open.
FetchFile(t) ==
    /\ cyc[t].pc = "fetching"
    /\ srcKind = "file"
    /\ fs["f"].exists
    /\ cyc' = [cyc EXCEPT ![t] =
                  Distribute(@, [kind |-> "file", data |-> <<>>, pos |-> 0,
                                 open |-> TRUE])]
    /\ lastUpdated' = NewWatermark(cyc[t])
    /\ lastStreamStart' = cyc[t].start
    /\ UNCHANGED <<now, sinks, policy, srcKind, src, fs, callerPc, inits, loopPc,
                   stopCh, tick, finalFailures, rt, content>>

\* err != nil: runner.OnSourceError(err); return.  The callback's answer is
\* not used by the runner.
SourceErrorSilent(c, e) ==
    [c EXCEPT !.outcome = "error", !.err = e, !.pc = "done"]
SourceError(c, e) ==
    [c EXCEPT !.outcome = "error", !.err = e, !.srcErrs = Append(@, e),
              !.delay = CallbackDelay(c.fetches), !.pc = "done"]

FetchError(t) ==
    /\ cyc[t].pc = "fetching"
    /\ srcKind = "file"
    /\ ~fs["f"].exists
    /\ cyc' = [cyc EXCEPT ![t] = SourceError(@, "ENOENT")]
    /\ finalFailures' = finalFailures + CallbackFinal(cyc[t].fetches)
    /\ UNCHANGED <<now, lastUpdated, sinks, policy, srcKind, src, fs, callerPc,
                   inits, loopPc, stopCh, tick, rt, lastStreamStart, content>>


\* ------------------------------------------------- the sinks' UpdateFrom
\* What the reader handed to the current sink reads from, and how far it is.
ReaderData(c) ==
    IF c.rkind = "buf" THEN c.w
    ELSE IF c.rc.kind = "file" THEN fs["f"].data
    ELSE c.rc.data
ReaderPos(c) == IF c.rkind = "buf" THEN c.rpos ELSE c.rc.pos
ReaderFails(c) == c.rkind # "buf" /\ c.rc.kind = "failing"

\* r = bytes.NewBuffer(w.Bytes()): the reader of the next sink, when there
\* are several sinks.
NextReaderStale(c) == c
NextReaderWhole(c) ==
    IF N = 1 THEN c
    ELSE [c EXCEPT !.rkind = "buf", !.rpos = 0, !.w = c.rc.data]
NextReader(c) ==
    IF N = 1 THEN c
    ELSE [c EXCEPT !.rkind = "buf", !.rpos = 0]

\* if err != nil { runner.OnSinkError(s, err) }
ReportSinkError(c, e) ==
    IF e = "nil" THEN c ELSE [c EXCEPT !.reports = Append(@, <<c.i, e>>)]

\* The loop over the sinks moves on, or syncOnce returns.
AdvanceSinkRepeat(c, e) ==
    IF c.i < N THEN [c EXCEPT !.pc = "sink"]
    ELSE [c EXCEPT !.pc = "closing"]
AdvanceSinkStopOnError(c, e) ==
    IF c.i < N /\ e = "nil" THEN [c EXCEPT !.i = @ + 1, !.pc = "sink"]
    ELSE [c EXCEPT !.pc = "closing"]
AdvanceSink(c, e) ==
    IF c.i < N THEN [c EXCEPT !.i = @ + 1, !.pc = "sink"]
    ELSE [c EXCEPT !.pc = "closing"]

\* UpdateFrom of sink c.i has returned e.
Returned(c, e) ==
    LET c1 == [c EXCEPT !.res = e, !.ret = c.i,
                        !.allEof = @ /\ c.eof,
                        !.nFailed = IF e = "nil" THEN @ ELSE @ + 1]
    IN  AdvanceSink(NextReader(ReportSinkError(c1, e)), e)

\* A Read of n bytes through the reader: the stream or buffer moves on, the
\* tee copies the bytes into w.
Consume(c, n) ==
    LET chunk == SubSeq(ReaderData(c), ReaderPos(c) + 1, ReaderPos(c) + n)
        c1 == IF c.rkind = "buf" THEN [c EXCEPT !.rpos = @ + n]
              ELSE [c EXCEPT !.rc.pos = @ + n, !.produced = @ \o chunk]
        c2 == IF c.rkind = "tee" THEN [c1 EXCEPT !.w = @ \o chunk] ELSE c1
    IN  [c2 EXCEPT !.got = @ \o chunk]

Chunk(c, n) == SubSeq(ReaderData(c), ReaderPos(c) + 1, ReaderPos(c) + n)
Avail(c) == Len(ReaderData(c)) - ReaderPos(c)

\* A call of s.UpdateFrom(r) begins.
Entered(c) ==
    [c EXCEPT !.nCalls = @ + 1, !.got = <<>>, !.eof = FALSE, !.res = "none",
              !.sent = <<>>]

\* s.UpdateFrom(r) is entered: byteChannel starts ioutil.ReadAll, fileSink
\* opens its file.
SinkCall(t) ==
    LET c == cyc[t]
        s == sinks[c.i]
        c1 == [Entered(c) EXCEPT !.acc = <<>>, !.woff = 0, !.pc = "reading"]
    IN  /\ c.pc = "sink"
        /\ cyc' = [cyc EXCEPT ![t] = c1]
        /\ fs' = IF s.kind = "file"
                 THEN [fs EXCEPT ![s.path] = OpenFile(@)] ELSE fs
        /\ UNCHANGED <<now, lastUpdated, sinks, policy, srcKind, src, callerPc,
                       inits, loopPc, stopCh, tick, finalFailures, rt, lastStreamStart, content>>

\* fileSink.UpdateFrom: os.OpenFile fails and the error is returned.
SinkOpenFail(t) ==
    LET c == cyc[t]
        c1 == Entered(c)
    IN  /\ c.pc = "sink"
        /\ sinks[c.i].kind = "file"
        /\ cyc' = [cyc EXCEPT ![t] = Returned(c1, "EACCES")]
        /\ UNCHANGED <<now, lastUpdated, sinks, policy, srcKind, src, fs, callerPc,
                       inits, loopPc, stopCh, tick, finalFailures, rt, lastStreamStart, content>>

\* One round of the sink's copy loop: Read gives n bytes, which ReadAll
\* appends to its slice and io.Copy writes to the file at its offset.
SinkRead(t) ==
    LET c == cyc[t]
        s == sinks[c.i]
    IN  /\ c.pc = "reading"
        /\ ~ReaderFails(c)
        /\ \E n \in 1..Min(MaxChunk, Avail(c)) :
             LET c1 == Consume(c, n)
             IN  /\ cyc' = [cyc EXCEPT ![t] =
                              IF s.kind = "chan"
                              THEN [c1 EXCEPT !.acc = @ \o Chunk(c, n)]
                              ELSE [c1 EXCEPT !.woff = @ + n]]
                 /\ fs' = IF s.kind = "file"
                          THEN [fs EXCEPT ![s.path].data = WriteAt(@, c.woff, Chunk(c, n))]
                          ELSE fs
        /\ UNCHANGED <<now, lastUpdated, sinks, policy, srcKind, src, callerPc,
                       inits, loopPc, stopCh, tick, finalFailures, rt, lastStreamStart, content>>

\* io.Copy: Read gives n bytes, the Write of them fails and UpdateFrom
\* returns the error.
SinkWriteFail(t) ==
    LET c == cyc[t]
        s == sinks[c.i]
    IN  /\ c.pc = "reading"
        /\ s.kind = "file"
        /\ ~ReaderFails(c)
        /\ \E n \in 1..Min(MaxChunk, Avail(c)) :
             cyc' = [cyc EXCEPT ![t] = Returned(Consume(c, n), "ENOSPC")]
        /\ UNCHANGED <<fs, now, lastUpdated, sinks, policy, srcKind, src, callerPc,
                       inits, loopPc, stopCh, tick, finalFailures, rt, lastStreamStart, content>>

\* Read reports the end of the stream: byteChannel sends the slice on its
\* channel, and UpdateFrom returns nil.
SinkEOF(t) ==
    LET c == cyc[t]
        s == sinks[c.i]
    IN  /\ c.pc = "reading"
        /\ ~ReaderFails(c)
        /\ Avail(c) = 0
        /\ cyc' = [cyc EXCEPT ![t] =
                      Returned([c EXCEPT !.eof = TRUE,
                                         !.sent = IF s.kind = "chan"
                                                  THEN <<c.acc>> ELSE @],
                               "nil")]
        /\ UNCHANGED <<now, lastUpdated, sinks, policy, srcKind, src, fs, callerPc,
                       inits, loopPc, stopCh, tick, finalFailures, rt, lastStreamStart, content>>

\* Read fails (byteSource.Read: io.ErrUnexpectedEOF) and UpdateFrom returns
\* the error.
SinkReadErr(t) ==
    LET c == cyc[t]
    IN  /\ c.pc = "reading"
        /\ ReaderFails(c)
        /\ cyc' = [cyc EXCEPT ![t] = Returned(c, "ErrUnexpectedEOF")]
        /\ UNCHANGED <<now, lastUpdated, sinks, policy, srcKind, src, fs, callerPc,
                       inits, loopPc, stopCh, tick, finalFailures, rt, lastStreamStart, content>>

\* defer rc.Close(), and syncOnce returns.
SyncReturnRollsBack(t) ==
    /\ cyc[t].pc = "closing"
    /\ cyc' = [cyc EXCEPT ![t] = [@ EXCEPT !.rc.open = FALSE, !.closes = @ + 1,
                                           !.pc = "done"]]
    /\ lastUpdated' = IF cyc[t].nFailed > 0 THEN cyc[t].arg ELSE lastUpdated
    /\ UNCHANGED <<now, sinks, policy, srcKind, src, fs, callerPc,
                   inits, loopPc, stopCh, tick, finalFailures, rt, lastStreamStart, content>>

SyncReturnLeaks(t) ==
    /\ cyc[t].pc = "closing"
    /\ cyc' = [cyc EXCEPT ![t] = [@ EXCEPT !.pc = "done"]]
    /\ UNCHANGED <<now, lastUpdated, sinks, policy, srcKind, src, fs, callerPc,
                   inits, loopPc, stopCh, tick, finalFailures, rt, lastStreamStart, content>>

SyncReturn(t) ==
    /\ cyc[t].pc = "closing"
    /\ cyc' = [cyc EXCEPT ![t] = [@ EXCEPT !.rc.open = FALSE, !.closes = @ + 1,
                                           !.pc = "done"]]
    /\ UNCHANGED <<now, lastUpdated, sinks, policy, srcKind, src, fs, callerPc,
                   inits, loopPc, stopCh, tick, finalFailures, rt, lastStreamStart, content>>


\* ------------------------------------------------------ InitFrom, Start
\* InitFrom(s): nothing without sinks, else one syncOnce on the caller's
\* goroutine.
\* len(runner.sinks) == 0
NoSinksIgnored == FALSE
NoSinks == N = 0

InitFromCall ==
    /\ callerPc = "idle"
    /\ NoCycle("caller")
    /\ inits < MaxInit
    /\ inits' = inits + 1
    /\ IF NoSinks
       THEN UNCHANGED <<cyc, callerPc, rt, lastStreamStart, content>>
       ELSE cyc' = BeginCycle("caller") /\ callerPc' = "insync"
    /\ UNCHANGED <<now, lastUpdated, sinks, policy, srcKind, src, fs, loopPc,
                   stopCh, tick, finalFailures, rt, lastStreamStart, content>>

\* syncOnce has returned to its caller: its locals are gone; what the call
\* did (when it started, what Fetch answered, how many sinks failed) is kept.
Returns(c) ==
    [IdleCycle EXCEPT !.pc = "returned", !.start = c.start,
                      !.outcome = c.outcome, !.nFailed = c.nFailed]

InitFromReturn ==
    /\ callerPc = "insync"
    /\ cyc["caller"].pc = "done"
    /\ callerPc' = "idle"
    /\ cyc' = [cyc EXCEPT !["caller"] = Returns(@)]
    /\ UNCHANGED <<now, lastUpdated, sinks, policy, srcKind, src, fs, inits,
                   loopPc, stopCh, tick, finalFailures, rt, lastStreamStart, content>>

\* Start(interval): without sinks it returns a function that does nothing;
\* else it makes the ticker and the channel ch and starts the goroutine.
Start ==
    /\ callerPc = "idle"
    /\ stopCh = "none"
    /\ IF NoSinks
       THEN stopCh' = "noop" /\ UNCHANGED loopPc
       ELSE stopCh' = "open" /\ loopPc' = "top"
    /\ UNCHANGED <<now, lastUpdated, sinks, policy, srcKind, src, fs, cyc,
                   callerPc, inits, tick, finalFailures, rt, lastStreamStart, content>>

\* The function Start returned: close(ch).
Stop ==
    /\ callerPc = "idle"
    /\ stopCh = "open"
    /\ stopCh' = "closed"
    /\ UNCHANGED <<now, lastUpdated, sinks, policy, srcKind, src, fs, cyc,
                   callerPc, inits, loopPc, tick, finalFailures, rt, lastStreamStart, content>>

\* The function Start returned without sinks: func() {}.
StopNoop ==
    /\ callerPc = "idle"
    /\ stopCh = "noop"
    /\ stopCh' = "noop-called"
    /\ UNCHANGED <<now, lastUpdated, sinks, policy, srcKind, src, fs, cyc,
                   callerPc, inits, loopPc, tick, finalFailures, rt, lastStreamStart, content>>

\* for { runner.syncOnce(runner.source) ...
LoopSync ==
    /\ loopPc = "top"
    /\ cyc' = BeginCycle("loop")
    /\ loopPc' = "insync"
    /\ UNCHANGED <<now, lastUpdated, sinks, policy, srcKind, src, fs, callerPc,
                   inits, stopCh, tick, finalFailures, rt, lastStreamStart, content>>

\* syncOnce returns to the loop, which waits in its select.
LoopSelect ==
    /\ loopPc = "insync"
    /\ cyc["loop"].pc = "done"
    /\ loopPc' = "select"
    /\ cyc' = [cyc EXCEPT !["loop"] = [IdleCycle EXCEPT !.pc = "returned"]]
    /\ UNCHANGED <<now, lastUpdated, sinks, policy, srcKind, src, fs, callerPc,
                   inits, stopCh, tick, finalFailures, rt, lastStreamStart, content>>

AtAnyPoint == loopPc \in {"insync", "select"}
AtSelect == loopPc = "select"

\* select: case <-tk.C
LoopTick ==
    /\ AtSelect
    /\ tick
    /\ tick' = FALSE
    /\ loopPc' = "top"
    /\ UNCHANGED <<now, lastUpdated, sinks, policy, srcKind, src, fs, cyc,
                   callerPc, inits, stopCh, finalFailures, rt, lastStreamStart, content>>

\* select: case <-ch: tk.Stop(); return
LoopStop ==
    /\ AtSelect
    /\ stopCh = "closed"
    /\ loopPc' = "exited"
    /\ UNCHANGED <<now, lastUpdated, sinks, policy, srcKind, src, fs, cyc,
                   callerPc, inits, stopCh, tick, finalFailures, rt, lastStreamStart, content>>

\* ---------------------------------------------------------- environment
\* The steps of the sinks read neither the clock nor the source, so the
\* environment's steps are taken before or after them.
SinksIdle ==
    \A t \in Tasks : cyc[t].pc \notin {"sink", "reading", "closing", "done"}

TickerRuns == stopCh \in {"open", "closed"} /\ loopPc # "exited"

\* The interval passes: the ticker puts a tick into tk.C (which holds one).
TickerFire ==
    /\ TickerRuns
    /\ SinksIdle
    /\ now < MaxTime
    /\ now' = now + 1
    /\ tick' = TRUE
    /\ UNCHANGED <<lastUpdated, sinks, policy, srcKind, src, fs, cyc, callerPc,
                   inits, loopPc, stopCh, finalFailures, rt, lastStreamStart, content>>

\* Time passes while no ticker measures it.
Advance ==
    /\ ~TickerRuns
    /\ SinksIdle
    /\ now < MaxTime
    /\ now' = now + 1
    /\ UNCHANGED <<lastUpdated, sinks, policy, srcKind, src, fs, cyc, callerPc,
                   inits, loopPc, stopCh, tick, finalFailures, rt, lastStreamStart, content>>

\* The data behind the byteSource changes.
NewContents == {<<2>>}
Modify ==
    /\ srcKind = "byte"
    /\ SinksIdle
    /\ src.lastModified < now
    /\ \E d \in NewContents : src' = [src EXCEPT !.lastModified = now, !.content = d]
    /\ UNCHANGED <<now, lastUpdated, sinks, policy, srcKind, fs, cyc, callerPc,
                   inits, loopPc, stopCh, tick, finalFailures, rt, lastStreamStart, content>>

\* writeTempFile: the source's file is written by someone else.
ExternalWrite ==
    /\ srcKind = "file"
    /\ ~fs["f"].exists
    /\ SinksIdle
    /\ \E d \in NewContents : fs' = [fs EXCEPT !["f"] = File(d)] /\ content' = d
    /\ UNCHANGED <<now, lastUpdated, sinks, policy, srcKind, src, cyc, callerPc,
                   inits, loopPc, stopCh, tick, finalFailures, rt, lastStreamStart>>

\* os.Remove(name)
ExternalRemove ==
    /\ srcKind = "file"
    /\ fs["f"].exists
    /\ SinksIdle
    /\ fs' = [fs EXCEPT !["f"] = NoFile]
    /\ UNCHANGED <<now, lastUpdated, sinks, policy, srcKind, src, cyc, callerPc,
                   inits, loopPc, stopCh, tick, finalFailures, rt, lastStreamStart, content>>

\* ------------------------------------------------------- specifications
NoClient == [pc |-> "none", P |-> <<>>, woff |-> 0, rpos |-> 0, out |-> <<>>]

\* The content of a byteSource ("abcde" in the tests).
Payload == [i \in 1..MaxLen |-> IF i % 2 = 1 THEN 1 ELSE 2]

\* New(from, to...): the watermark is the zero time and no cycle has run.
InitRunner ==
    /\ lastStreamStart = ZeroTime
    /\ now = 1
    /\ lastUpdated = ZeroTime
    /\ cyc = [t \in Tasks |-> IdleCycle]
    /\ callerPc = "idle"
    /\ inits = 0
    /\ loopPc = "none"
    /\ stopCh = "none"
    /\ tick = FALSE
    /\ finalFailures = 0

Init ==
    /\ InitRunner
    /\ rt = NoClient
    /\ sinks \in SinkLists(MaxSinks)
    /\ \E k \in {"byte", "file"}, pol \in {"zero", "exp"}, rf \in {0, 2},
          lm \in {ZeroTime, 1} :
         /\ k = "byte" => pol = "zero"
         /\ k = "file" => rf = 0 /\ lm = ZeroTime
         /\ srcKind = k
         /\ policy = pol
         /\ src = [lastModified |-> lm, calls |-> 0, remainingFailures |-> rf,
                   content |-> Payload]
    /\ content = <<>>
    /\ fs = [p \in Paths |-> IF p = "g" THEN File(<<2, 2>>) ELSE NoFile]

SyncStep(t) ==
    \/ FetchUnmodified(t)
    \/ FetchBytes(t)
    \/ FetchFile(t)
    \/ FetchError(t)
    \/ SinkCall(t)
    \/ SinkOpenFail(t)
    \/ SinkRead(t)
    \/ SinkWriteFail(t)
    \/ SinkEOF(t)
    \/ SinkReadErr(t)
    \/ SyncReturn(t)

\* The client calls InitFrom only while no poll loop runs.
ClientInitFrom == InitFromCall /\ loopPc \in {"none", "exited"}

Next ==
    \/ ClientInitFrom
    \/ InitFromReturn
    \/ Start
    \/ Stop
    \/ StopNoop
    \/ LoopSync
    \/ LoopSelect
    \/ LoopTick
    \/ LoopStop
    \/ TickerFire
    \/ Advance
    \/ Modify
    \/ ExternalWrite
    \/ ExternalRemove
    \/ \E t \in Tasks : SyncStep(t)

Spec == Init /\ [][Next]_vars


\* TestReadWriteSameFile: New(FromFile(name), ToFile(name)) on a file that
\* writeTempFile has written; nothing else touches the file and no I/O fails.
InitFile ==
    /\ InitRunner
    /\ rt = NoClient
    /\ sinks = <<FileSink("f")>>
    /\ policy = "zero"
    /\ srcKind = "file"
    /\ src = [lastModified |-> 1, calls |-> 0, remainingFailures |-> 0,
              content |-> <<>>]
    /\ content \in Contents
    /\ fs = [p \in Paths |-> IF p = "f" THEN File(content) ELSE NoFile]

FileStep(t) ==
    \/ FetchFile(t)
    \/ SinkCall(t)
    \/ SinkRead(t)
    \/ SinkEOF(t)
    \/ SyncReturn(t)

NextFile ==
    \/ ClientInitFrom
    \/ InitFromReturn
    \/ Start
    \/ Stop
    \/ LoopSync
    \/ LoopSelect
    \/ LoopTick
    \/ LoopStop
    \/ TickerFire
    \/ \E t \in Tasks : FileStep(t)

SpecFile == InitFile /\ [][NextFile]_vars

\* ----------------------------------------------- file sink, file source
\* A client hands the payload P to ToFile(path).UpdateFrom and then reads
\* FromFile(path).Fetch() to the end.
\* fileSink.UpdateFrom: os.OpenFile(path, O_WRONLY|O_CREATE, 0666)
RtOpen ==
    /\ rt.pc = "start"
    /\ fs' = [fs EXCEPT !["f"] = OpenFile(@)]
    /\ rt' = [rt EXCEPT !.pc = "writing"]
    /\ UNCHANGED <<now, lastUpdated, sinks, policy, srcKind, src, cyc, callerPc,
                   inits, loopPc, stopCh, tick, finalFailures, lastStreamStart,
                   content>>

\* io.Copy(f, r): the next n bytes of the payload are written at the offset.
RtWrite ==
    /\ rt.pc = "writing"
    /\ \E n \in 1..Min(MaxChunk, Len(rt.P) - rt.woff) :
         /\ fs' = [fs EXCEPT !["f"].data =
                      WriteAt(@, rt.woff, SubSeq(rt.P, rt.woff + 1, rt.woff + n))]
         /\ rt' = [rt EXCEPT !.woff = @ + n]
    /\ UNCHANGED <<now, lastUpdated, sinks, policy, srcKind, src, cyc, callerPc,
                   inits, loopPc, stopCh, tick, finalFailures, lastStreamStart,
                   content>>

\* The payload is at its end: f.Close(), UpdateFrom returns nil.
RtWritten ==
    /\ rt.pc = "writing"
    /\ rt.woff = Len(rt.P)
    /\ rt' = [rt EXCEPT !.pc = "written"]
    /\ UNCHANGED <<now, lastUpdated, sinks, policy, srcKind, src, fs, cyc,
                   callerPc, inits, loopPc, stopCh, tick, finalFailures,
                   lastStreamStart, content>>

\* fileSource.Fetch: os.Open(path)
RtFetch ==
    /\ rt.pc = "written"
    /\ fs["f"].exists
    /\ rt' = [rt EXCEPT !.pc = "reading"]
    /\ UNCHANGED <<now, lastUpdated, sinks, policy, srcKind, src, fs, cyc,
                   callerPc, inits, loopPc, stopCh, tick, finalFailures,
                   lastStreamStart, content>>

\* Read gives the next n bytes of the file.
RtRead ==
    /\ rt.pc = "reading"
    /\ \E n \in 1..Min(MaxChunk, Len(fs["f"].data) - rt.rpos) :
         rt' = [rt EXCEPT !.rpos = @ + n,
                          !.out = @ \o SubSeq(fs["f"].data, rt.rpos + 1, rt.rpos + n)]
    /\ UNCHANGED <<now, lastUpdated, sinks, policy, srcKind, src, fs, cyc,
                   callerPc, inits, loopPc, stopCh, tick, finalFailures,
                   lastStreamStart, content>>

\* Read reports the end of the file.
RtEOF ==
    /\ rt.pc = "reading"
    /\ rt.rpos = Len(fs["f"].data)
    /\ rt' = [rt EXCEPT !.pc = "read"]
    /\ UNCHANGED <<now, lastUpdated, sinks, policy, srcKind, src, fs, cyc,
                   callerPc, inits, loopPc, stopCh, tick, finalFailures,
                   lastStreamStart, content>>

\* Any payload, onto a file that is missing or holds any content.
InitRoundTrip ==
    /\ InitRunner
    /\ sinks = <<FileSink("f")>>
    /\ policy = "zero"
    /\ srcKind = "file"
    /\ src = [lastModified |-> 1, calls |-> 0, remainingFailures |-> 0,
              content |-> <<>>]
    /\ content = <<>>
    /\ \E prior \in {NoFile} \cup {File(d) : d \in Contents} :
         fs = [p \in Paths |-> IF p = "f" THEN prior ELSE NoFile]
    /\ \E P \in Contents : rt = [NoClient EXCEPT !.pc = "start", !.P = P]

NextRoundTrip ==
    \/ RtOpen
    \/ RtWrite
    \/ RtWritten
    \/ RtFetch
    \/ RtRead
    \/ RtEOF

SpecRoundTrip == InitRoundTrip /\ [][NextRoundTrip]_vars


\* ------------------------------------------- InitFrom beside the poll loop
\* Nothing in Runner orders the caller's goroutine and the goroutine of
\* Start: InitFrom may be called while the poll loop runs, and its syncOnce
\* then runs beside the loop's.  runner.lastUpdated is read (line 78) and
\* written (line 86) by both without synchronisation.  A time.Time torn
\* between two values compares, by After, as one of the two, so what the
\* race can produce is what the two orders of the read and write steps
\* produce, and both orders are behaviours of this specification.
InitConc ==
    /\ InitRunner
    /\ rt = NoClient
    /\ sinks = <<ChanSink>>
    /\ policy = "zero"
    /\ srcKind = "byte"
    /\ src = [lastModified |-> ZeroTime, calls |-> 0, remainingFailures |-> 0,
              content |-> Payload]
    /\ content = <<>>
    /\ fs = [p \in Paths |-> NoFile]

ConcStep(t) ==
    \/ FetchUnmodified(t)
    \/ FetchBytes(t)
    \/ SinkCall(t)
    \/ SinkRead(t)
    \/ SinkEOF(t)
    \/ SyncReturn(t)

NextConc ==
    \/ InitFromCall
    \/ InitFromReturn
    \/ Start
    \/ Stop
    \/ LoopSync
    \/ LoopSelect
    \/ LoopTick
    \/ LoopStop
    \/ TickerFire
    \/ Advance
    \/ \E t \in Tasks : ConcStep(t)

SpecConc == InitConc /\ [][NextConc]_vars

\* ------------------------------------------------- the poll loop's exit
\* The poll loop alone, with calls of Fetch and UpdateFrom that return.  The
\* clock's reading is capped at MaxTime; the ticker goes on firing.
TickerRefire ==
    /\ TickerRuns
    /\ SinksIdle
    /\ now = MaxTime
    /\ ~tick
    /\ tick' = TRUE
    /\ UNCHANGED <<now, lastUpdated, sinks, policy, srcKind, src, fs, cyc, callerPc,
                   inits, loopPc, stopCh, finalFailures, rt, lastStreamStart, content>>

InitLive ==
    /\ InitRunner
    /\ rt = NoClient
    /\ sinks \in {<<ChanSink>>, <<FileSink("g"), ChanSink>>}
    /\ policy = "zero"
    /\ srcKind = "byte"
    /\ src = [lastModified |-> ZeroTime, calls |-> 0, remainingFailures |-> 0,
              content |-> Payload]
    /\ content = <<>>
    /\ fs = [p \in Paths |-> NoFile]

NextLive ==
    \/ Start
    \/ Stop
    \/ LoopSync
    \/ LoopSelect
    \/ LoopTick
    \/ LoopStop
    \/ TickerFire
    \/ TickerRefire
    \/ ConcStep("loop")

\* The goroutine of Start is scheduled: every call it makes returns and it
\* goes on to its next statement.
LoopRuns == WF_vars(LoopSync \/ LoopSelect \/ ConcStep("loop"))

\* select chooses among the cases that can proceed by a uniform
\* pseudo-random choice: a case that can proceed each time the loop comes to
\* the select is chosen in the end.
StopFairnessWeak == WF_vars(LoopStop)
StopFairness == SF_vars(LoopStop)

SpecLive == InitLive /\ [][NextLive]_vars /\ LoopRuns /\ StopFairness

\* ------------------------------------------------------------ properties
AtEnd(t) == cyc[t].pc = "done"
SinkReturned(c) == c.outcome = "stream" /\ c.res # "none"

\* C1: when Fetch gave a stream and every sink called so far has read to
\* the end of its input, the sink that returned last has read exactly the
\* bytes the stream produced, which are the source's payload (a channel
\* sink has sent them on), and at the end of the cycle all N sinks were
\* called.
C1_EverySinkGetsThePayload ==
    \A t \in Tasks :
      LET c == cyc[t] IN
        (SinkReturned(c) /\ c.allEof) =>
          /\ c.got = c.produced
          /\ c.rc.kind = "bytes" => c.got = c.rc.data
          /\ c.rc.kind = "file" => c.got = fs["f"].data
          /\ sinks[c.ret].kind = "chan" => c.sent = <<c.got>>
          /\ AtEnd(t) => c.nCalls = N

C1_Witness ==
    /\ N = 2
    /\ AtEnd("loop")
    /\ cyc["loop"].outcome = "stream"
    /\ cyc["loop"].allEof
    /\ cyc["loop"].ret = 2
    /\ cyc["loop"].got = Payload

\* C2: a cycle that ends on Unmodified has called no sink and leaves the
\* watermark at the value it had when the cycle began.
C2_UnmodifiedChangesNothing ==
    \A t \in Tasks :
      (AtEnd(t) /\ cyc[t].outcome = "unmodified") =>
        /\ cyc[t].nCalls = 0
        /\ lastUpdated = cyc[t].arg

C2_Witness ==
    /\ AtEnd("loop")
    /\ cyc["loop"].outcome = "unmodified"
    /\ lastUpdated > ZeroTime
    /\ cyc["loop"].start > lastUpdated

InitFromIsCurrent ==
    /\ srcKind = "byte"
    /\ cyc["caller"].pc = "returned"
    /\ cyc["caller"].outcome = "stream"
    /\ src.lastModified < cyc["caller"].start

C4_NoRefetchAfterInitFrom ==
    [][InitFromIsCurrent =>
         /\ src'.calls = src.calls
         /\ cyc'["loop"].outcome # "stream"
         /\ cyc'["loop"].nCalls = 0]_vars

C4_Witness ==
    /\ InitFromIsCurrent
    /\ AtEnd("loop")
    /\ cyc["loop"].outcome = "unmodified"
    /\ now = MaxTime
    /\ src.calls = 1

\* C5: in a cycle whose Fetch gave a stream the sinks are called once each,
\* in order, whichever of them fail; a failing sink is reported once, with
\* its error; a failure ends neither the cycle's loop over the sinks nor the
\* poll loop.
C5_SinkFailuresAreIsolated ==
    \A t \in Tasks :
      LET c == cyc[t] IN
        SinkReturned(c) =>
          /\ c.nCalls = c.ret
          /\ Len(c.reports) = c.nFailed
          /\ c.res # "nil" => c.reports[Len(c.reports)] = <<c.ret, c.res>>
          /\ c.res = "nil" => \A k \in 1..Len(c.reports) : c.reports[k][1] # c.ret
          /\ AtEnd(t) => c.nCalls = N
          /\ (AtEnd(t) /\ t = "loop") => loopPc = "insync"

C5_Witness ==
    /\ N = 2
    /\ AtEnd("loop")
    /\ cyc["loop"].reports = <<<<1, "EACCES">>>>
    /\ cyc["loop"].ret = 2
    /\ cyc["loop"].res = "nil"

\* C6: a cycle that ends on a Fetch error has passed that error to the
\* source-error callback once, has called no sink and leaves the watermark
\* as it was; the poll loop goes on to its select.
C6_SourceErrorEndsTheCycle ==
    \A t \in Tasks :
      LET c == cyc[t] IN
        (AtEnd(t) /\ c.outcome = "error") =>
          /\ c.srcErrs = <<c.err>>
          /\ c.err # "nil"
          /\ c.nCalls = 0
          /\ lastUpdated = c.arg
          /\ t = "loop" => loopPc = "insync"

C6_Witness ==
    /\ AtEnd("loop")
    /\ cyc["loop"].outcome = "error"
    /\ cyc["loop"].srcErrs = <<"ENOENT">>
    /\ lastUpdated > ZeroTime

\* C7: with the exponential backoff of MaxAttempts attempts installed, a
\* cycle that gives up on a failing source has attempted the source
\* MaxAttempts times and the terminal-failure callback has fired.
C7_GiveUpAfterMaxAttempts ==
    \A t \in Tasks :
      (policy = "exp" /\ AtEnd(t) /\ cyc[t].outcome = "error") =>
        /\ cyc[t].fetches = MaxAttempts
        /\ finalFailures >= 1
        /\ cyc[t].nCalls = 0

\* C8: when the source-error callback answers a failed Fetch with a positive
\* delay, the runner calls Fetch again within the same cycle.
C8_PositiveDelayRetriesInCycle ==
    \A t \in Tasks :
      (AtEnd(t) /\ cyc[t].outcome = "error" /\ cyc[t].delay > 0) =>
        cyc[t].fetches > 1

\* C9: with the source and the sink on the same file, what is read through
\* the source is always the start of the file's original content and the
\* whole of it at the end of the stream, no source or sink error is
\* reported, and the file holds its original content throughout.
C9_SameFileKeepsItsContent ==
    /\ fs["f"] = File(content)
    /\ \A t \in Tasks :
         LET c == cyc[t] IN
           /\ IsPrefix(c.produced, content)
           /\ c.eof => c.produced = content
           /\ c.outcome # "error"
           /\ c.srcErrs = <<>>
           /\ c.reports = <<>>

C9_Witness ==
    /\ now = MaxTime
    /\ cyc["loop"].pc = "reading"
    /\ cyc["loop"].woff >= 1
    /\ cyc["loop"].woff < Len(content)

\* C10: after the file sink has written the payload P, reading the file
\* source to its end gives exactly P, whatever the file held before.
C10_RoundTrip == rt.pc = "read" => rt.out = rt.P

\* C11: a runner constructed without sinks does nothing: whatever InitFrom,
\* Start and the function Start returned are called, no Fetch is made, no
\* callback is invoked, no poll loop and no ticker exist, the watermark is
\* the zero time and no sink's file is touched.
C11_NoSinksNoWork ==
    N = 0 =>
      /\ src.calls = 0
      /\ \A t \in Tasks : cyc[t] = IdleCycle
      /\ callerPc = "idle"
      /\ loopPc = "none"
      /\ stopCh \in {"none", "noop", "noop-called"}
      /\ ~tick
      /\ lastUpdated = ZeroTime
      /\ finalFailures = 0
      /\ fs["g"] = File(<<2, 2>>)

C11_Witness ==
    /\ N = 0
    /\ inits = MaxInit
    /\ stopCh = "noop-called"
    /\ now = MaxTime

\* C12: the poll loop leaves a cycle only when syncOnce has returned, and
\* then for its select; a cycle that is under way can take its next step
\* whether or not the stop function has been called, and calling it changes
\* nothing of the cycle; the loop exits only from its select, on the closed
\* channel; once it has exited it begins no cycle and makes no Fetch.
CycleUnderWay == loopPc = "insync" /\ cyc["loop"].pc # "done"

StopStep ==
    /\ (loopPc = "insync" /\ loopPc' # "insync") =>
         (cyc["loop"].pc = "done" /\ loopPc' = "select")
    /\ (stopCh' # stopCh) => (cyc' = cyc)
    /\ (loopPc # "exited" /\ loopPc' = "exited") =>
         (loopPc = "select" /\ stopCh = "closed" /\ NoCycle("loop"))
    /\ (loopPc = "exited") =>
         /\ loopPc' = "exited"
         /\ cyc'["loop"] = cyc["loop"]
         /\ NoCycle("caller") => (src'.calls = src.calls)

C12_StopOnlyBetweenCycles ==
    /\ [](CycleUnderWay => ENABLED SyncStep("loop"))
    /\ [][StopStep]_vars

C12_Witness ==
    /\ stopCh = "closed"
    /\ CycleUnderWay
    /\ cyc["loop"].pc = "reading"
    /\ Len(cyc["loop"].got) >= 1
    /\ cyc["loop"].start = MaxTime

\* C13: at most one sync cycle of the runner is in progress at any time:
\* the caller's goroutine and the poll loop are never both inside syncOnce.
InCycle(t) == cyc[t].pc \in {"fetching", "sink", "reading", "closing"}

C13_OneCycleAtATime == ~(InCycle("caller") /\ InCycle("loop"))

\* C14: the watermark never decreases: no step takes it below the value it
\* holds.
C14_WatermarkNeverDecreases == [][lastUpdated' >= lastUpdated]_vars

\* C15: within one cycle the sinks are updated one after the other in list
\* order: when UpdateFrom of sink i is about to be called, exactly the sinks
\* 1..i-1 have been called and the last of them has returned; while sink i
\* runs no other call of the cycle is open; the stream is closed only when
\* all N calls have returned.
C15_SinksUpdatedSerially ==
    \A t \in Tasks :
      LET c == cyc[t] IN
        (c.outcome = "stream" /\ c.pc # "returned") =>
          /\ c.i \in 1..N
          /\ c.pc = "sink" => (c.nCalls = c.i - 1 /\ c.ret = c.i - 1)
          /\ c.pc = "reading" => (c.nCalls = c.i /\ c.ret = c.i - 1)
          /\ c.pc \in {"closing", "done"} => (c.nCalls = N /\ c.ret = N)

C15_Witness ==
    /\ N = MaxSinks
    /\ cyc["loop"].pc = "reading"
    /\ cyc["loop"].i = N
    /\ cyc["loop"].ret = N - 1
    /\ cyc["loop"].reports # <<>>
    /\ Len(cyc["loop"].got) >= 1

\* C16: with several sinks, once the first sink has failed the buffer holds
\* exactly the bytes it had read from the stream; every later sink is handed
\* a reader over that buffer from its start, whatever the sinks before it
\* read; that reader does not fail, and a later sink that reads to the end
\* has read exactly those bytes (a channel sink has sent them on).
FirstSinkFailed(c) ==
    c.outcome = "stream" /\ c.reports # <<>> /\ c.reports[1][1] = 1

C16_LaterSinksGetWhatTheFirstRead ==
    \A t \in Tasks :
      LET c == cyc[t] IN
        (N > 1 /\ FirstSinkFailed(c)) =>
          /\ c.w = c.produced
          /\ c.pc = "sink" => (c.rkind = "buf" /\ c.rpos = 0)
          /\ c.pc = "reading" =>
               (ReaderData(c) = c.w /\ ~ReaderFails(c) /\ IsPrefix(c.got, c.w))
          /\ (c.ret >= 2 /\ c.eof) =>
               /\ c.got = c.w
               /\ c.res = "nil"
               /\ sinks[c.ret].kind = "chan" => c.sent = <<c.w>>

C16_Witness ==
    /\ N = 2
    /\ AtEnd("loop")
    /\ cyc["loop"].reports = <<<<1, "ENOSPC">>>>
    /\ Len(cyc["loop"].w) >= 1
    /\ Len(cyc["loop"].w) < Len(cyc["loop"].rc.data)
    /\ cyc["loop"].ret = 2
    /\ cyc["loop"].eof
    /\ cyc["loop"].sent = <<cyc["loop"].w>>

\* C17: the stream a Fetch returned is open while the sinks are updated and
\* is closed once, after the last sink has returned and before syncOnce
\* returns, whichever sinks failed; a cycle that got no stream closes
\* nothing, and between cycles no stream is open.
C17_StreamClosedOnce ==
    \A t \in Tasks :
      LET c == cyc[t] IN
        /\ c.pc \in {"sink", "reading", "closing"} =>
             (c.outcome = "stream" /\ c.rc.open /\ c.closes = 0)
        /\ (AtEnd(t) /\ c.outcome = "stream") =>
             (~c.rc.open /\ c.closes = 1 /\ c.ret = N)
        /\ c.outcome # "stream" => (~c.rc.open /\ c.closes = 0)
        /\ NoCycle(t) => ~c.rc.open

C17_Witness ==
    /\ N = 2
    /\ AtEnd("loop")
    /\ cyc["loop"].outcome = "stream"
    /\ cyc["loop"].nFailed = 2
    /\ cyc["loop"].closes = 1

\* C18: a cycle whose Fetch answered ErrUnmodified ends as a no-op that is
\* no error: the source-error callback was not invoked (so no delay was
\* asked for and no terminal failure was counted), and Fetch was called
\* once, with no further attempt.
C18_UnmodifiedIsNoError ==
    \A t \in Tasks :
      LET c == cyc[t] IN
        (AtEnd(t) /\ srcKind = "byte" /\ ByteUnmodified(c.arg)) =>
          /\ c.outcome = "unmodified"
          /\ c.err = "nil"
          /\ c.srcErrs = <<>>
          /\ c.delay = 0
          /\ c.fetches = 1
          /\ finalFailures = 0

C18_Witness ==
    /\ AtEnd("loop")
    /\ cyc["loop"].outcome = "unmodified"
    /\ cyc["loop"].fetches = 1
    /\ src.calls = 1
    /\ src.remainingFailures = 1

\* C19: a cycle whose Fetch gave a stream leaves the watermark at its start
\* time whether or not sinks failed; and once InitFrom has fetched a stream
\* from a byteSource not modified since, with a sink failing, the watermark
\* stays at that start, no step fetches content again and the poll loop's
\* cycles call no sink.
InitFromSinkFailed ==
    /\ InitFromIsCurrent
    /\ cyc["caller"].nFailed >= 1

NoRefetchStep ==
    InitFromSinkFailed =>
      /\ lastUpdated = cyc["caller"].start
      /\ lastUpdated' = lastUpdated
      /\ src'.calls = src.calls
      /\ cyc'["loop"].outcome \in {"none", "unmodified"}
      /\ cyc'["loop"].nCalls = 0

C20_StopEndsTheLoop == (stopCh = "closed") ~> (loopPc = "exited")

C20_Witness ==
    /\ loopPc = "exited"
    /\ stopCh = "closed"
    /\ tick
    /\ now = MaxTime
    /\ src.calls = 1

====
